---- MODULE Spec2Model ----
(***************************************************************************)
(* Model of src/wasm/request.rs: the Request value object and the          *)
(* RequestBuilder with its deferred-error chain (body, header, fetch_mode, *)
(* cache_mode) and the asynchronous terminal call send().                  *)
(***************************************************************************)
EXTENDS Integers, Sequences, FiniteSets, TLC

VARIABLES
    builder,          \* the RequestBuilder value: [client, request]
    created,          \* the crate::Result<Request> the builder was created with
    chain,            \* the chain calls applied to the builder so far, in order
    tried,            \* the conversions attempted by the latest chain call
    pc,               \* position of the caller: chaining, or a phase of send()
    fut,              \* the state captured by the future returned by send()
    dispatched,       \* the Requests handed to Client::execute_request, in order
    transportResult,  \* what the Transport completed with (an Option)
    result,           \* what send() completed with (an Option)
    completions,      \* how many times send() has completed
    args,             \* the method and URL Request::new was called with (an Option)
    formatted,        \* what the latest step wrote by Debug formatting (an Option)
    inflight          \* the operations the Transport has in flight

vars == <<builder, created, chain, tried, pc, fut, dispatched, transportResult,
          result, completions, args, formatted, inflight>>

\* Longest chain of configuration calls explored.
MaxChain == 3

----------------------------------------------------------------------------
\* Option<T> and Result<T, E>

None == <<>>
Some(x) == <<x>>

Ok(v) == [tag |-> "Ok", val |-> v]
Err(e) == [tag |-> "Err", val |-> e]

\* A field whose value has been moved out of its owner.
Moved == [tag |-> "Moved"]

----------------------------------------------------------------------------
\* Inputs of the calls

Methods == {"GET", "POST"}
Urls == {"https://hyper.rs/"}
Clients == {"client"}

\* Header names and values are strings, kept as sequences of characters.
XA == <<"X", "-", "A">>
xa == <<"x", "-", "a">>
Good == <<"G", "o", "o", "d">>
BadName == <<"B", "a", "d", "\n", "N", "a", "m", "e">>
KeyInputs == {XA, xa, Good, BadName}

V1 == <<"1">>
V2 == <<"v", "2">>
BadValue == <<"v", "\r", "\n">>
ValueInputs == {V1, V2, BadValue}

BodyInputs == {"textPayload", "bytesPayload"}
RequestModes == {"Cors", "NoCors"}
RequestCaches == {"NoStore", "Reload"}

Responses == {"response"}
TransportErrors == {[kind |-> "Request", source |-> "fetch failed"]}

----------------------------------------------------------------------------
\* crate::header: HeaderName, HeaderValue, HeaderMap

UpperToLower ==
    ("A" :> "a") @@ ("B" :> "b") @@ ("G" :> "g") @@ ("N" :> "n") @@ ("X" :> "x")

LowerTokenChars == {"a", "b", "d", "e", "g", "m", "n", "o", "x", "-"}

VisibleChars == LowerTokenChars \cup DOMAIN UpperToLower \cup {"1", "2", "v", " "}

\* The character a header name stores for c; "" when c is not a token character.
header_char(c) ==
    IF c \in DOMAIN UpperToLower THEN UpperToLower[c]
    ELSE IF c \in LowerTokenChars THEN c
    ELSE ""

\* HeaderName::try_from: a non-empty token, stored in lower case.
HeaderName_try_from(key) ==
    IF key = <<>> \/ \E i \in DOMAIN key : header_char(key[i]) = ""
    THEN Err("InvalidHeaderName")
    ELSE Ok([i \in DOMAIN key |-> header_char(key[i])])

\* HeaderValue::try_from: visible characters only, stored as given.
HeaderValue_try_from(value) ==
    IF \E i \in DOMAIN value : value[i] \notin VisibleChars
    THEN Err("InvalidHeaderValue")
    ELSE Ok(value)

\* HeaderMap: one entry per name, in order of the name's first insertion; an
\* entry holds the name's values in insertion order.
HeaderMap_new == <<>>

HeaderMap_find(map, name) == {i \in DOMAIN map : map[i].name = name}

HeaderMap_append(map, name, value) ==
    IF HeaderMap_find(map, name) = {}
    THEN Append(map, [name |-> name, values |-> <<value>>])
    ELSE [i \in DOMAIN map |->
            IF map[i].name = name
            THEN [map[i] EXCEPT !.values = Append(@, value)]
            ELSE map[i]]

HeaderMap_get_all(map, name) ==
    IF HeaderMap_find(map, name) = {}
    THEN <<>>
    ELSE map[CHOOSE i \in HeaderMap_find(map, name) : TRUE].values

\* Body: From<T> for Body wraps the payload.
Body_from(b) == [bytes |-> b]

\* crate::error::builder
error_builder(e) == [kind |-> "Builder", source |-> e]

----------------------------------------------------------------------------
\* Request

\* Request::new starting with a fetch mode.
Request_new_with_mode(method, url) ==
    [method |-> method,
     url |-> url,
     headers |-> HeaderMap_new,
     body |-> None,
     fetch_mode |-> Some("Cors"),
     cache_mode |-> None]

Request_new(method, url) ==
    [method |-> method,
     url |-> url,
     headers |-> HeaderMap_new,
     body |-> None,
     fetch_mode |-> None,
     cache_mode |-> None]

----------------------------------------------------------------------------
\* RequestBuilder: each operation takes the builder and returns a builder

RequestBuilder_new(client, request) == [client |-> client, request |-> request]

\* body with a conversion that can fail.
body_fallible(self, b) ==
    IF self.request.tag = "Ok"
    THEN IF b = "bytesPayload"
         THEN [self EXCEPT !.request = Err(error_builder("InvalidBody"))]
         ELSE [self EXCEPT !.request.val.body = Some(Body_from(b))]
    ELSE self

\* body that only fills an absent body.
body_keeps_first(self, b) ==
    IF self.request.tag = "Ok" /\ self.request.val.body = None
    THEN [self EXCEPT !.request.val.body = Some(Body_from(b))]
    ELSE self

\* body also appending a header that describes the payload.
body_appends_header(self, b) ==
    IF self.request.tag = "Ok"
    THEN [self EXCEPT !.request.val.body = Some(Body_from(b)),
                      !.request.val.headers =
                          HeaderMap_append(@, <<"g", "o", "o", "d">>, <<"1">>)]
    ELSE self

body(self, b) ==
    IF self.request.tag = "Ok"
    THEN [self EXCEPT !.request.val.body = Some(Body_from(b))]
    ELSE self

\* header replacing the values of a name it already holds (insert for append).
header_inserts(self, key, value) ==
    IF self.request.tag = "Ok"
    THEN LET k == HeaderName_try_from(key) IN
         IF k.tag = "Ok"
         THEN LET v == HeaderValue_try_from(value) IN
              IF v.tag = "Ok"
              THEN [self |-> [self EXCEPT !.request.val.headers =
                                  IF HeaderMap_find(@, k.val) = {}
                                  THEN HeaderMap_append(@, k.val, v.val)
                                  ELSE [i \in DOMAIN @ |->
                                          IF @[i].name = k.val
                                          THEN [@[i] EXCEPT !.values = <<v.val>>]
                                          ELSE @[i]]],
                    tried |-> <<"name", "value">>]
              ELSE [self |-> [self EXCEPT !.request = Err(error_builder(v.val))],
                    tried |-> <<"name", "value">>]
         ELSE [self |-> [self EXCEPT !.request = Err(error_builder(k.val))],
               tried |-> <<"name">>]
    ELSE [self |-> self, tried |-> <<>>]

\* header appending the value without validating it.
header_unchecked_value(self, key, value) ==
    IF self.request.tag = "Ok"
    THEN LET k == HeaderName_try_from(key) IN
         IF k.tag = "Ok"
         THEN [self |-> [self EXCEPT !.request.val.headers =
                             HeaderMap_append(@, k.val, value)],
               tried |-> <<"name">>]
         ELSE [self |-> [self EXCEPT !.request = Err(error_builder(k.val))],
               tried |-> <<"name">>]
    ELSE [self |-> self, tried |-> <<>>]

\* header converting the value before the name.
header_value_first(self, key, value) ==
    IF self.request.tag = "Ok"
    THEN LET v == HeaderValue_try_from(value) IN
         IF v.tag = "Ok"
         THEN LET k == HeaderName_try_from(key) IN
              IF k.tag = "Ok"
              THEN [self |-> [self EXCEPT !.request.val.headers =
                                  HeaderMap_append(@, k.val, v.val)],
                    tried |-> <<"value", "name">>]
              ELSE [self |-> [self EXCEPT !.request = Err(error_builder(k.val))],
                    tried |-> <<"value", "name">>]
         ELSE [self |-> [self EXCEPT !.request = Err(error_builder(v.val))],
               tried |-> <<"value">>]
    ELSE [self |-> self, tried |-> <<>>]

\* header ignoring a value that fails validation.
header_drops_value_error(self, key, value) ==
    IF self.request.tag = "Ok"
    THEN LET k == HeaderName_try_from(key) IN
         IF k.tag = "Ok"
         THEN LET v == HeaderValue_try_from(value) IN
              IF v.tag = "Ok"
              THEN [self |-> [self EXCEPT !.request.val.headers =
                                  HeaderMap_append(@, k.val, v.val)],
                    tried |-> <<"name", "value">>]
              ELSE [self |-> self, tried |-> <<"name", "value">>]
         ELSE [self |-> [self EXCEPT !.request = Err(error_builder(k.val))],
               tried |-> <<"name">>]
    ELSE [self |-> self, tried |-> <<>>]

\* header converting its arguments before it looks at the outcome, keeping
\* the first error.
header_revalidates(self, key, value) ==
    LET k == HeaderName_try_from(key)
        v == HeaderValue_try_from(value) IN
    IF self.request.tag = "Ok"
    THEN IF k.tag = "Err"
         THEN [self |-> [self EXCEPT !.request = Err(error_builder(k.val))],
               tried |-> <<"name", "value">>]
         ELSE IF v.tag = "Err"
         THEN [self |-> [self EXCEPT !.request = Err(error_builder(v.val))],
               tried |-> <<"name", "value">>]
         ELSE [self |-> [self EXCEPT !.request.val.headers =
                             HeaderMap_append(@, k.val, v.val)],
               tried |-> <<"name", "value">>]
    ELSE [self |-> self, tried |-> <<"name", "value">>]

\* header with the conversions moved out of the `if let Ok` guard: a failing
\* call on a Failed builder replaces the stored error.
header_overwrites(self, key, value) ==
    LET k == HeaderName_try_from(key)
        v == HeaderValue_try_from(value) IN
    IF k.tag = "Err"
    THEN [self |-> [self EXCEPT !.request = Err(error_builder(k.val))],
          tried |-> <<"name">>]
    ELSE IF v.tag = "Err"
    THEN [self |-> [self EXCEPT !.request = Err(error_builder(v.val))],
          tried |-> <<"name", "value">>]
    ELSE IF self.request.tag = "Ok"
    THEN [self |-> [self EXCEPT !.request.val.headers =
                        HeaderMap_append(@, k.val, v.val)],
          tried |-> <<"name", "value">>]
    ELSE [self |-> self, tried |-> <<"name", "value">>]

\* header returns the builder and, beside it, the conversions it attempted.
header(self, key, value) ==
    IF self.request.tag = "Ok"
    THEN LET k == HeaderName_try_from(key) IN
         IF k.tag = "Ok"
         THEN LET v == HeaderValue_try_from(value) IN
              IF v.tag = "Ok"
              THEN [self |-> [self EXCEPT !.request.val.headers =
                                  HeaderMap_append(@, k.val, v.val)],
                    tried |-> <<"name", "value">>]
              ELSE [self |-> [self EXCEPT !.request = Err(error_builder(v.val))],
                    tried |-> <<"name", "value">>]
         ELSE [self |-> [self EXCEPT !.request = Err(error_builder(k.val))],
               tried |-> <<"name">>]
    ELSE [self |-> self, tried |-> <<>>]

\* fetch_mode rebuilding the modes: the cache mode is lost.
fetch_mode_clears_cache(self, mode) ==
    IF self.request.tag = "Ok"
    THEN [self EXCEPT !.request.val.fetch_mode = Some(mode),
                      !.request.val.cache_mode = None]
    ELSE self

fetch_mode(self, mode) ==
    IF self.request.tag = "Ok"
    THEN [self EXCEPT !.request.val.fetch_mode = Some(mode)]
    ELSE self

\* cache_mode writing the fetch mode's field.
cache_mode_sets_fetch_mode(self, mode) ==
    IF self.request.tag = "Ok"
    THEN [self EXCEPT !.request.val.fetch_mode = Some(mode)]
    ELSE self

cache_mode(self, mode) ==
    IF self.request.tag = "Ok"
    THEN [self EXCEPT !.request.val.cache_mode = Some(mode)]
    ELSE self

\* send taking the builder by reference: the caller keeps it.
send_borrows(self) == [future |-> self, self |-> self]

\* send(self) takes the builder by value: it moves into the returned future.
send(self) == [future |-> self, self |-> Moved]

\* send reporting a stored error as a fresh request error.
send_start_wraps(self) ==
    IF self.request.tag = "Err"
    THEN [done |-> TRUE,
          result |-> Some(Err([kind |-> "Request", source |-> self.request.val])),
          dispatch |-> <<>>]
    ELSE [done |-> FALSE, result |-> None, dispatch |-> <<self.request.val>>]

\* send dispatching a default Request before it looks at the outcome.
send_start_dispatches(self) ==
    IF self.request.tag = "Err"
    THEN [done |-> TRUE, result |-> Some(Err(self.request.val)),
          dispatch |-> <<Request_new("GET", "about:blank")>>]
    ELSE [done |-> FALSE, result |-> None, dispatch |-> <<self.request.val>>]

\* send, up to its first suspension: `self.request?` and the dispatch.
send_start(self) ==
    IF self.request.tag = "Err"
    THEN [done |-> TRUE, result |-> Some(Err(self.request.val)), dispatch |-> <<>>]
    ELSE [done |-> FALSE, result |-> None, dispatch |-> <<self.request.val>>]

\* send turning the Transport's error into a construction error.
send_resume_rewraps(awaited) ==
    IF awaited.tag = "Err" THEN Err(error_builder(awaited.val)) ELSE awaited

\* send, on resumption: the awaited result is the value of the async body.
send_resume(awaited) == awaited

----------------------------------------------------------------------------
\* Client (the Transport): the operations it has in flight

\* execute_request registers the operation of each Request it is handed.
Transport_dispatch(ops, requests) == ops \o requests

\* A finished operation is no longer in flight.
Transport_finish(ops) == <<>>

\* Dropping the pending execute_request abandons its operation.
Transport_abandon(ops) == <<>>

----------------------------------------------------------------------------
\* Debug formatting: fmt::DebugStruct and the two impls

debug_struct(name) == [name |-> name, fields |-> <<>>]

field(f, name, value) ==
    [f EXCEPT !.fields = Append(@, [name |-> name, value |-> value])]

finish(f) == f

\* The snapshot of a Request with its body beside the three fields.
fmt_request_fields_with_body(f, req) ==
    field(field(field(field(f, "method", req.method), "url", req.url),
                "headers", req.headers), "body", req.body)

fmt_request_fields(f, req) ==
    field(field(field(f, "method", req.method), "url", req.url),
          "headers", req.headers)

Request_fmt(req) == finish(fmt_request_fields(debug_struct("Request"), req))

RequestBuilder_fmt(self) ==
    LET b == debug_struct("RequestBuilder") IN
    IF self.request.tag = "Ok"
    THEN finish(fmt_request_fields(b, self.request.val))
    ELSE finish(field(b, "error", self.request.val))

----------------------------------------------------------------------------
\* The state machine

\* The ways a builder is created: around Request::new(method, url), or
\* around the error of a URL that did not parse.
Creations ==
    {[args |-> Some([method |-> m, url |-> u]), request |-> Ok(Request_new(m, u))] :
        m \in Methods, u \in Urls}
        \cup {[args |-> None, request |-> Err(error_builder("RelativeUrlWithoutBase"))]}

InitialRequests == {n.request : n \in Creations}

Init ==
    /\ \E c \in Clients, n \in Creations :
          /\ builder = RequestBuilder_new(c, n.request)
          /\ created = n.request
          /\ args = n.args
    /\ formatted = None
    /\ inflight = <<>>
    /\ chain = <<>>
    /\ tried = <<>>
    /\ pc = "chain"
    /\ fut = Moved
    /\ dispatched = <<>>
    /\ transportResult = None
    /\ result = None
    /\ completions = 0

\* A call on the builder needs the caller to hold it.
Held == builder # Moved

CanChain == Held /\ Len(chain) < MaxChain

SendVars == <<pc, fut, dispatched, transportResult, result, completions>>

CallBody ==
    /\ CanChain
    /\ \E b \in BodyInputs :
          /\ builder' = body(builder, b)
          /\ chain' = Append(chain, [op |-> "body", arg |-> b])
    /\ tried' = <<>>
    /\ formatted' = None
    /\ UNCHANGED <<created, args, inflight, SendVars>>

CallHeader ==
    /\ CanChain
    /\ \E key \in KeyInputs, value \in ValueInputs :
          LET r == header(builder, key, value) IN
          /\ builder' = r.self
          /\ tried' = r.tried
          /\ chain' = Append(chain, [op |-> "header", key |-> key, value |-> value])
    /\ formatted' = None
    /\ UNCHANGED <<created, args, inflight, SendVars>>

CallFetchMode ==
    /\ CanChain
    /\ \E mode \in RequestModes :
          /\ builder' = fetch_mode(builder, mode)
          /\ chain' = Append(chain, [op |-> "fetch_mode", arg |-> mode])
    /\ tried' = <<>>
    /\ formatted' = None
    /\ UNCHANGED <<created, args, inflight, SendVars>>

CallCacheMode ==
    /\ CanChain
    /\ \E mode \in RequestCaches :
          /\ builder' = cache_mode(builder, mode)
          /\ chain' = Append(chain, [op |-> "cache_mode", arg |-> mode])
    /\ tried' = <<>>
    /\ formatted' = None
    /\ UNCHANGED <<created, args, inflight, SendVars>>

\* Debug formatting of the builder the caller holds (`&self`).
FmtDebug ==
    /\ Held
    /\ formatted' = Some(RequestBuilder_fmt(builder))
    /\ UNCHANGED <<builder, created, chain, tried, args, inflight, SendVars>>

\* send(self): the builder moves into the future; nothing runs until it is polled.
CallSend ==
    /\ Held
    /\ LET s == send(builder) IN
       /\ fut' = s.future
       /\ builder' = s.self
    /\ pc' = "created"
    /\ formatted' = None
    /\ UNCHANGED <<created, chain, tried, dispatched, transportResult, result,
                   completions, args, inflight>>

\* First poll: a stored error completes the future; a Request is dispatched.
PollSend ==
    /\ pc = "created"
    /\ LET s == send_start(fut) IN
       /\ dispatched' = dispatched \o s.dispatch
       /\ inflight' = Transport_dispatch(inflight, s.dispatch)
       /\ result' = s.result
       /\ completions' = IF s.done THEN completions + 1 ELSE completions
       /\ pc' = IF s.done THEN "done" ELSE "awaiting"
       /\ fut' = IF s.done THEN Moved ELSE [fut EXCEPT !.request = Moved]
    /\ formatted' = None
    /\ UNCHANGED <<builder, created, chain, tried, transportResult, args>>

\* The Transport finishes the round trip with a Response or a transport error.
TransportCompletes ==
    /\ pc = "awaiting"
    /\ \E r \in {Ok(x) : x \in Responses} \cup {Err(e) : e \in TransportErrors} :
          transportResult' = Some(r)
    /\ inflight' = Transport_finish(inflight)
    /\ pc' = "ready"
    /\ formatted' = None
    /\ UNCHANGED <<builder, created, chain, tried, fut, dispatched, result,
                   completions, args>>

\* The future is polled again and completes with the awaited result.
ResumeSend ==
    /\ pc = "ready"
    /\ result' = Some(send_resume(transportResult[1]))
    /\ completions' = completions + 1
    /\ fut' = Moved
    /\ pc' = "done"
    /\ formatted' = None
    /\ UNCHANGED <<builder, created, chain, tried, dispatched, transportResult,
                   args, inflight>>

\* The caller dropping the future, but the future's state staying alive.
DropSend_leaks ==
    /\ pc \in {"created", "awaiting", "ready"}
    /\ fut' = fut
    /\ inflight' = inflight
    /\ pc' = "dropped"
    /\ formatted' = None
    /\ UNCHANGED <<builder, created, chain, tried, dispatched, transportResult,
                   result, completions, args>>

\* The caller drops the future before it completes: what the future holds is
\* dropped with it, the pending execute_request included.
DropSend ==
    /\ pc \in {"created", "awaiting", "ready"}
    /\ fut' = Moved
    /\ inflight' = Transport_abandon(inflight)
    /\ pc' = "dropped"
    /\ formatted' = None
    /\ UNCHANGED <<builder, created, chain, tried, dispatched, transportResult,
                   result, completions, args>>

Next ==
    \/ CallBody
    \/ CallHeader
    \/ CallFetchMode
    \/ CallCacheMode
    \/ FmtDebug
    \/ CallSend
    \/ PollSend
    \/ TransportCompletes
    \/ ResumeSend
    \/ DropSend

Spec == Init /\ [][Next]_vars

----------------------------------------------------------------------------
\* What a chain of calls is expected to produce, read off the calls alone

NameIsValid(key) == HeaderName_try_from(key).tag = "Ok"
ValueIsValid(value) == HeaderValue_try_from(value).tag = "Ok"

IsHeaderCall(c) == c.op = "header"
IsFailingHeaderCall(c) ==
    IsHeaderCall(c) /\ (~NameIsValid(c.key) \/ ~ValueIsValid(c.value))

\* The error of a failing header call.
HeaderCallError(c) ==
    IF ~NameIsValid(c.key)
    THEN error_builder("InvalidHeaderName")
    ELSE error_builder("InvalidHeaderValue")

\* The positions of the failing header calls of the chain.
FailingCalls(calls) == {i \in DOMAIN calls : IsFailingHeaderCall(calls[i])}

Min(S) == CHOOSE x \in S : \A y \in S : x <= y

\* The first error in chain order, as an Option.
FirstError ==
    IF created.tag = "Err" THEN Some(created.val)
    ELSE IF FailingCalls(chain) = {} THEN None
    ELSE Some(HeaderCallError(chain[Min(FailingCalls(chain))]))

\* The call a step applies, when the step is a chain call.
IsChainStep == chain' # chain
Applied == chain'[Len(chain')]

----------------------------------------------------------------------------
\* C1: once the builder's outcome is Failed it stays Failed with the same
\* stored error: every chain call on a Failed builder leaves the builder as
\* it was, and send() takes that very builder.
FailedStaysFailed ==
    [][(pc = "chain" /\ builder.request.tag = "Err")
         => /\ IsChainStep => builder' = builder
            /\ pc' = "created" => fut' = builder]_vars

\* A header call failed on a valid builder and two more calls followed.
FailedThenCalledWitness ==
    /\ pc = "chain"
    /\ created.tag = "Ok"
    /\ Len(chain) = 3
    /\ IsFailingHeaderCall(chain[1])
    /\ chain[2].op = "body"
    /\ IsHeaderCall(chain[3]) /\ ~IsFailingHeaderCall(chain[3])
    /\ builder.request.tag = "Err"

\* C2: send() completes with the first error captured in chain order, however
\* many calls follow it and even if later header calls are invalid too.
SendReportsFirstError ==
    (pc = "done" /\ FirstError # None) => result = Some(Err(FirstError[1]))

\* send() completed after a failing header call that was followed by another
\* header call failing with a different error.
TwoFailuresSentWitness ==
    /\ pc = "done"
    /\ created.tag = "Ok"
    /\ \E i, j \in FailingCalls(chain) :
          i < j /\ HeaderCallError(chain[i]) # HeaderCallError(chain[j])
    /\ result = Some(Err(FirstError[1]))

\* C3: send() on a Failed builder completes with the stored error and the
\* Transport's dispatch is never invoked.
FailedSendNeverDispatches ==
    [][(pc = "created" /\ fut.request.tag = "Err")
         => /\ dispatched' = <<>>
            /\ transportResult' = None
            /\ pc' \in {"done", "dropped"}
            /\ pc' = "done" => result' = Some(fut.request)]_vars

\* send() on a builder whose header call failed has completed.
FailedSendWitness ==
    /\ pc = "done"
    /\ created.tag = "Ok"
    /\ FailingCalls(chain) # {}
    /\ result # None /\ result[1].tag = "Err"
    /\ dispatched = <<>>

----------------------------------------------------------------------------
\* The header insertions and the last settings a chain of calls asks for

Max(S) == CHOOSE x \in S : \A y \in S : x >= y

IsValidHeaderCall(c) == IsHeaderCall(c) /\ ~IsFailingHeaderCall(c)

\* The validated name/value pairs of the valid header calls, in call order.
Inserted(calls) ==
    LET hs == SelectSeq(calls, IsValidHeaderCall) IN
    [i \in DOMAIN hs |-> [name |-> HeaderName_try_from(hs[i].key).val,
                          value |-> HeaderValue_try_from(hs[i].value).val]]

HasName(ins, name) == {i \in DOMAIN ins : ins[i].name = name}

RECURSIVE ValuesFrom(_, _, _)
ValuesFrom(ins, name, i) ==
    IF i > Len(ins) THEN <<>>
    ELSE IF ins[i].name = name
    THEN <<ins[i].value>> \o ValuesFrom(ins, name, i + 1)
    ELSE ValuesFrom(ins, name, i + 1)

\* The values inserted under name, in insertion order.
ValuesOf(ins, name) == ValuesFrom(ins, name, 1)

\* map holds exactly the pairs of ins: the names of ins, each once, in the
\* order of their first insertion, each with all its values in insertion order.
HoldsExactly(map, ins) ==
    /\ \A i, j \in DOMAIN map : i # j => map[i].name # map[j].name
    /\ {map[i].name : i \in DOMAIN map} = {ins[i].name : i \in DOMAIN ins}
    /\ \A i \in DOMAIN map : map[i].values = ValuesOf(ins, map[i].name)
    /\ \A i, j \in DOMAIN map :
          i < j => Min(HasName(ins, map[i].name)) < Min(HasName(ins, map[j].name))

\* The argument of the last call of the chain to the setter op, as an Option.
LastSet(calls, op) ==
    LET S == {i \in DOMAIN calls : calls[i].op = op} IN
    IF S = {} THEN None ELSE Some(calls[Max(S)].arg)

ExpectedBody(calls) ==
    IF LastSet(calls, "body") = None THEN None
    ELSE Some(Body_from(LastSet(calls, "body")[1]))

RequestFields == {"method", "url", "headers", "body", "fetch_mode", "cache_mode"}

\* C4: after any chain of calls none of which failed, the header map holds
\* exactly the inserted name/value pairs: every name of a valid header call,
\* with all the values given for it in insertion order, never overwritten.
HeadersAccumulateInOrder ==
    (pc = "chain" /\ FirstError = None)
      => /\ builder.request.tag = "Ok"
         /\ HoldsExactly(builder.request.val.headers, Inserted(chain))

\* header("X-A","1"), header("Good",..), header("X-A","v2"): the name holds
\* both of its values, the first one first.
RepeatedNameWitness ==
    /\ pc = "chain"
    /\ Len(chain) = 3
    /\ chain[1] = [op |-> "header", key |-> XA, value |-> V1]
    /\ IsValidHeaderCall(chain[2]) /\ chain[2].key = Good
    /\ chain[3] = [op |-> "header", key |-> XA, value |-> V2]
    /\ builder.request.tag = "Ok"
    /\ HeaderMap_get_all(builder.request.val.headers, xa) = <<V1, V2>>

\* C5: send() on a never-failed chain hands the Transport exactly the Request
\* the chain built: the method and URL of creation, the headers appended, the
\* body and the two modes as last configured, and nothing else.
SendTransfersBuiltRequest ==
    (pc \in {"awaiting", "ready", "done"} /\ FirstError = None)
      => /\ Len(dispatched) = 1
         /\ DOMAIN dispatched[1] = RequestFields
         /\ dispatched[1].method = created.val.method
         /\ dispatched[1].url = created.val.url
         /\ HoldsExactly(dispatched[1].headers, Inserted(chain))
         /\ dispatched[1].body = ExpectedBody(chain)
         /\ dispatched[1].fetch_mode = LastSet(chain, "fetch_mode")
         /\ dispatched[1].cache_mode = LastSet(chain, "cache_mode")

\* fetch_mode(Cors).cache_mode(NoStore).body(textPayload), then send().
ModesAndBodySentWitness ==
    /\ pc = "awaiting"
    /\ chain = <<[op |-> "fetch_mode", arg |-> "Cors"],
                 [op |-> "cache_mode", arg |-> "NoStore"],
                 [op |-> "body", arg |-> "textPayload"]>>
    /\ Len(dispatched) = 1
    /\ dispatched[1].fetch_mode = Some("Cors")
    /\ dispatched[1].cache_mode = Some("NoStore")
    /\ dispatched[1].body = Some(Body_from("textPayload"))

\* C6: on a valid builder a header call whose name or value fails validation
\* turns the outcome into Failed with a construction error, kept in the
\* builder: the call returns the builder and the chain goes on.
InvalidHeaderFailsBuilder ==
    [][(pc = "chain" /\ builder.request.tag = "Ok" /\ IsChainStep
          /\ IsFailingHeaderCall(Applied))
         => /\ pc' = "chain"
            /\ builder'.client = builder.client
            /\ builder'.request.tag = "Err"
            /\ builder'.request.val.kind = "Builder"
            /\ result' = None]_vars

\* A header call with a valid name and an invalid value has failed a valid
\* builder that already held a header.
InvalidValueWitness ==
    /\ pc = "chain"
    /\ created.tag = "Ok"
    /\ Len(chain) = 2
    /\ IsValidHeaderCall(chain[1])
    /\ IsHeaderCall(chain[2])
    /\ NameIsValid(chain[2].key) /\ ~ValueIsValid(chain[2].value)
    /\ builder.request = Err(error_builder("InvalidHeaderValue"))

\* C7: on a Failed builder a header call is skipped whole: neither conversion
\* is attempted and the builder is returned as it was.
FailedHeaderSkipped ==
    [][(pc = "chain" /\ builder.request.tag = "Err" /\ IsChainStep
          /\ IsHeaderCall(Applied))
         => /\ tried' = <<>>
            /\ builder' = builder]_vars

\* A header call with an invalid name was applied to a Failed builder.
SkippedHeaderWitness ==
    /\ pc = "chain"
    /\ Len(chain) = 2
    /\ IsFailingHeaderCall(chain[1])
    /\ IsHeaderCall(chain[2]) /\ ~NameIsValid(chain[2].key)
    /\ builder.request.tag = "Err"
    /\ tried = <<>>

\* C8: body, fetch_mode and cache_mode never fail: a chain call that takes a
\* valid builder to a Failed one is a header call.
OnlyHeaderFails ==
    [][(pc = "chain" /\ builder.request.tag = "Ok" /\ IsChainStep
          /\ builder'.request.tag # "Ok")
         => IsHeaderCall(Applied)]_vars

\* body, fetch_mode and cache_mode were all applied and the builder is valid.
SettersAppliedWitness ==
    /\ pc = "chain"
    /\ Len(chain) = 3
    /\ {chain[i].op : i \in DOMAIN chain} = {"body", "fetch_mode", "cache_mode"}
    /\ builder.request.tag = "Ok"

\* C9: on a valid builder each of body, fetch mode and cache mode holds the
\* argument of the last call that set it, or is absent if it was never set.
SettersReplace ==
    (pc = "chain" /\ builder.request.tag = "Ok")
      => /\ builder.request.val.body = ExpectedBody(chain)
         /\ builder.request.val.fetch_mode = LastSet(chain, "fetch_mode")
         /\ builder.request.val.cache_mode = LastSet(chain, "cache_mode")

\* A fetch_mode call and two body calls with different arguments: the later
\* body is the one held, and the cache mode is absent.
ReplacedWitness ==
    /\ pc = "chain"
    /\ Len(chain) = 3
    /\ chain[1].op = "fetch_mode"
    /\ chain[2].op = "body"
    /\ chain[3].op = "body" /\ chain[3].arg # chain[2].arg
    /\ builder.request.tag = "Ok"
    /\ builder.request.val.body = Some(Body_from(chain[3].arg))
    /\ builder.request.val.cache_mode = None

\* C10: send() on a valid builder dispatches at most once and completes at
\* most once; when it has completed it has dispatched exactly once and its
\* result is exactly the Transport's result; no result exists before that.
SendCompletesOnceWithTransportResult ==
    /\ completions <= 1
    /\ Len(dispatched) <= 1
    /\ pc # "done" => (result = None /\ completions = 0)
    /\ (pc = "done" /\ FirstError = None)
         => /\ Len(dispatched) = 1
            /\ completions = 1
            /\ transportResult # None
            /\ result = transportResult

\* send() on a valid builder completed with the Transport's error.
TransportErrorPassedWitness ==
    /\ pc = "done"
    /\ FirstError = None
    /\ Len(dispatched) = 1
    /\ completions = 1
    /\ result # None /\ result[1].tag = "Err"
    /\ result[1].val \in TransportErrors

----------------------------------------------------------------------------
\* C11: send() consumes the builder: from the call of send() on, the caller
\* holds no builder, no chain call, formatting or second send() happens, and
\* the Request handed to the Transport is kept neither by the builder nor by
\* the future.
BuilderConsumedBySend ==
    [][/\ pc' # "chain" => builder' = Moved
       /\ pc # "chain" => /\ chain' = chain
                          /\ formatted' = None
                          /\ pc' \notin {"chain", "created"}
       /\ pc' = "awaiting" => /\ Len(dispatched') = 1
                              /\ fut'.request = Moved]_vars

\* send() was called after two chain calls and has dispatched the Request.
ConsumedWitness ==
    /\ pc = "awaiting"
    /\ Len(chain) = 2
    /\ builder = Moved
    /\ fut.request = Moved
    /\ Len(dispatched) = 1

----------------------------------------------------------------------------
\* A stored header name is a non-empty lower-case token; a stored header
\* value has visible characters only.
IsStoredName(name) ==
    name # <<>> /\ \A i \in DOMAIN name : name[i] \in LowerTokenChars

IsStoredValue(value) == \A i \in DOMAIN value : value[i] \in VisibleChars

\* The header maps that exist in the state: the builder's, the one moved into
\* the future, and those of the dispatched Requests.
HeaderMaps ==
    (IF Held /\ builder.request.tag = "Ok"
     THEN {builder.request.val.headers} ELSE {})
    \cup (IF fut # Moved /\ fut.request.tag = "Ok"
          THEN {fut.request.val.headers} ELSE {})
    \cup {dispatched[i].headers : i \in DOMAIN dispatched}

\* C12: every entry of every header map has a name and a value that passed
\* validation, and comes from a header call that passed it: a failing header
\* call adds nothing.
HeadersAlwaysValid ==
    \A map \in HeaderMaps :
       \A i \in DOMAIN map :
          /\ IsStoredName(map[i].name)
          /\ map[i].values # <<>>
          /\ \A j \in DOMAIN map[i].values :
                /\ IsStoredValue(map[i].values[j])
                /\ \E c \in DOMAIN chain :
                      /\ IsValidHeaderCall(chain[c])
                      /\ HeaderName_try_from(chain[c].key).val = map[i].name
                      /\ HeaderValue_try_from(chain[c].value).val = map[i].values[j]

\* Three valid header calls under two names have filled the builder's map.
ValidEntriesWitness ==
    /\ pc = "chain"
    /\ Len(chain) = 3
    /\ \A c \in DOMAIN chain : IsValidHeaderCall(chain[c])
    /\ builder.request.tag = "Ok"
    /\ Len(builder.request.val.headers) = 2

----------------------------------------------------------------------------
\* The names of the fields a Debug output shows, in order.
FieldNames(out) == [i \in DOMAIN out.fields |-> out.fields[i].name]

\* C13: Debug formatting of a builder shows exactly method, url and headers
\* of the Request when the outcome is valid, and exactly the field error when
\* it is Failed; it changes nothing of the builder.
DebugShowsOutcomeOnly ==
    [][formatted' # None
         => /\ builder' = builder
            /\ chain' = chain
            /\ formatted'[1].name = "RequestBuilder"
            /\ IF builder.request.tag = "Ok"
               THEN /\ FieldNames(formatted'[1]) = <<"method", "url", "headers">>
                    /\ formatted'[1].fields[1].value = builder.request.val.method
                    /\ formatted'[1].fields[2].value = builder.request.val.url
                    /\ formatted'[1].fields[3].value = builder.request.val.headers
               ELSE /\ FieldNames(formatted'[1]) = <<"error">>
                    /\ formatted'[1].fields[1].value = builder.request.val]_vars

\* A valid builder with a header, a body and a fetch mode was formatted.
DebugValidWitness ==
    /\ formatted # None
    /\ Len(chain) = 3
    /\ builder.request.tag = "Ok"
    /\ builder.request.val.headers # <<>>
    /\ builder.request.val.body # None
    /\ builder.request.val.fetch_mode # None
    /\ Len(formatted[1].fields) = 3

----------------------------------------------------------------------------
----------------------------------------------------------------------------
\* C15: a freshly created Request holds the method and the URL it was created
\* with, an empty header map, no body, no fetch mode and no cache mode.
FreshRequestIsEmpty ==
    args # None
      => /\ created.tag = "Ok"
         /\ DOMAIN created.val = RequestFields
         /\ created.val.method = args[1].method
         /\ created.val.url = args[1].url
         /\ created.val.headers = <<>>
         /\ created.val.body = None
         /\ created.val.fetch_mode = None
         /\ created.val.cache_mode = None
         /\ (Held /\ chain = <<>>) => builder.request = created

\* A builder was created around Request::new(POST, url) and nothing was
\* called on it yet.
FreshRequestWitness ==
    /\ pc = "chain"
    /\ chain = <<>>
    /\ args # None
    /\ args[1].method = "POST"
    /\ builder.request.tag = "Ok"
    /\ builder.request.val.method = "POST"

----------------------------------------------------------------------------
\* A header call that would fail is applied to a Failed builder.
InvalidHeaderOnFailed ==
    /\ pc = "chain"
    /\ builder.request.tag = "Err"
    /\ IsChainStep
    /\ IsFailingHeaderCall(Applied)

\* C16 as stated: on a Failed builder a header call with an invalid name or
\* value is still evaluated, and its failure does not overwrite the first
\* captured error.
InvalidHeaderOnFailedStillEvaluated ==
    [][InvalidHeaderOnFailed
         => /\ tried' # <<>>
            /\ builder'.request = builder.request]_vars

\* C16, amended: on a Failed builder a header call with an invalid name or
\* value is not evaluated, neither conversion being attempted, and the first
\* captured error is not overwritten.
InvalidHeaderOnFailedNotEvaluated ==
    [][InvalidHeaderOnFailed
         => /\ tried' = <<>>
            /\ builder'.request = builder.request]_vars

\* A builder created Failed was given a header call with an invalid name and
\* an invalid value; it still holds the error it was created with.
FirstErrorKeptWitness ==
    /\ pc = "chain"
    /\ created.tag = "Err"
    /\ Len(chain) = 1
    /\ IsHeaderCall(chain[1])
    /\ ~NameIsValid(chain[1].key) /\ ~ValueIsValid(chain[1].value)
    /\ builder.request = created
    /\ tried = <<>>

----------------------------------------------------------------------------
\* new is old but for the field own.
OnlyFieldChanged(old, new, own) ==
    /\ DOMAIN new = DOMAIN old
    /\ \A f \in DOMAIN old \ {own} : new[f] = old[f]

\* The header map new is old with one value added: under a new name at the
\* end, or at the end of the values of a name old holds; every entry of old
\* stays in place.
OneValueAppended(old, new) ==
    \/ /\ Len(new) = Len(old) + 1
       /\ SubSeq(new, 1, Len(old)) = old
       /\ Len(new[Len(new)].values) = 1
       /\ HeaderMap_find(old, new[Len(new)].name) = {}
    \/ /\ Len(new) = Len(old)
       /\ \E i \in DOMAIN old :
             /\ new[i].name = old[i].name
             /\ Len(new[i].values) = Len(old[i].values) + 1
             /\ SubSeq(new[i].values, 1, Len(old[i].values)) = old[i].values
             /\ \A j \in DOMAIN old \ {i} : new[j] = old[j]

\* C17: on a valid builder a chain call changes only its own field: body the
\* body, fetch_mode the fetch mode, cache_mode the cache mode, a successful
\* header appends one value to the header map and moves no entry; no chain
\* call changes the method, the URL or the builder's client.
ChainCallsChangeOwnFieldOnly ==
    [][(pc = "chain" /\ IsChainStep)
         => /\ builder'.client = builder.client
            /\ (builder.request.tag = "Ok"
                  /\ (~IsHeaderCall(Applied) \/ IsValidHeaderCall(Applied)))
                 => /\ builder'.request.tag = "Ok"
                    /\ OnlyFieldChanged(builder.request.val, builder'.request.val,
                                        IF IsHeaderCall(Applied) THEN "headers"
                                        ELSE Applied.op)
                    /\ IsHeaderCall(Applied)
                         => OneValueAppended(builder.request.val.headers,
                                             builder'.request.val.headers)]_vars

\* cache_mode, a valid header and fetch_mode were called, in this order, and
\* the cache mode and the header are still there.
OwnFieldWitness ==
    /\ pc = "chain"
    /\ Len(chain) = 3
    /\ chain[1].op = "cache_mode"
    /\ IsValidHeaderCall(chain[2])
    /\ chain[3].op = "fetch_mode"
    /\ builder.request.tag = "Ok"
    /\ builder.request.val.cache_mode = Some(chain[1].arg)
    /\ Len(builder.request.val.headers) = 1
    /\ builder.request.val.method = created.val.method

----------------------------------------------------------------------------
\* C18: header converts the name before the value: an invalid name ends the
\* call with the name's error and the value is never converted, also when the
\* value is invalid too; the value's error is captured only when the name is
\* valid.
NameConvertedBeforeValue ==
    [][(pc = "chain" /\ builder.request.tag = "Ok" /\ IsChainStep
          /\ IsHeaderCall(Applied))
         => /\ ~NameIsValid(Applied.key)
                 => /\ tried' = <<"name">>
                    /\ builder'.request = Err(error_builder("InvalidHeaderName"))
            /\ NameIsValid(Applied.key)
                 => /\ tried' = <<"name", "value">>
                    /\ ~ValueIsValid(Applied.value)
                         => builder'.request =
                               Err(error_builder("InvalidHeaderValue"))
            /\ (builder'.request.tag = "Err"
                  /\ builder'.request.val.source = "InvalidHeaderValue")
                 => NameIsValid(Applied.key)]_vars

\* A header call with an invalid name and an invalid value failed a valid
\* builder with the name's error, the value not converted.
BothInvalidWitness ==
    /\ pc = "chain"
    /\ created.tag = "Ok"
    /\ Len(chain) = 1
    /\ IsHeaderCall(chain[1])
    /\ ~NameIsValid(chain[1].key) /\ ~ValueIsValid(chain[1].value)
    /\ builder.request = Err(error_builder("InvalidHeaderName"))
    /\ tried = <<"name">>

----------------------------------------------------------------------------
\* Replaying a chain of calls on a builder

ApplyCall(self, c) ==
    CASE c.op = "body" -> body(self, c.arg)
      [] c.op = "header" -> header(self, c.key, c.value).self
      [] c.op = "fetch_mode" -> fetch_mode(self, c.arg)
      [] c.op = "cache_mode" -> cache_mode(self, c.arg)

RECURSIVE RunFrom(_, _, _)
RunFrom(self, calls, i) ==
    IF i > Len(calls) THEN self
    ELSE RunFrom(ApplyCall(self, calls[i]), calls, i + 1)

Run(self, calls) == RunFrom(self, calls, 1)

\* The reorderings of calls that keep the relative order of the header calls
\* and the relative order of the calls to each setter: p[k] is the position
\* in calls of the k-th call of the reordered chain.
Reorderings(calls) ==
    {p \in [DOMAIN calls -> DOMAIN calls] :
        /\ \A k, l \in DOMAIN calls : k # l => p[k] # p[l]
        /\ \A k, l \in DOMAIN calls :
              (k < l /\ calls[p[k]].op = calls[p[l]].op) => p[k] < p[l]}

Reordered(calls, p) == [k \in DOMAIN calls |-> calls[p[k]]]

\* C19: calls that set different fields commute: when a chain without a
\* failing call is sent, every reordering of it that keeps the order of the
\* header calls and of the calls to each setter builds the Request that was
\* dispatched.
ReorderedChainsBuildSameRequest ==
    (pc = "awaiting" /\ FirstError = None)
      => \A p \in Reorderings(chain) :
            LET other == Run(RequestBuilder_new(fut.client, created),
                             Reordered(chain, p)) IN
            /\ other.request.tag = "Ok"
            /\ dispatched = <<other.request.val>>

\* A chain of a body call, a valid header call and a fetch_mode call, which
\* has six reorderings, was sent.
ReorderedWitness ==
    /\ pc = "awaiting"
    /\ Len(chain) = 3
    /\ chain[1].op = "body"
    /\ IsValidHeaderCall(chain[2])
    /\ chain[3].op = "fetch_mode"
    /\ Cardinality(Reorderings(chain)) = 6
    /\ Len(dispatched) = 1

====
